---- MODULE Spec2Model ----
(***************************************************************************)
(* pyorc: the Transect accessor (src/pyorc/api/transect.py).               *)
(*                                                                         *)
(* A dataset is an xarray Dataset: a leading dimension ("time" for the raw *)
(* velocimetry, "quantile" for what get_q returns), the point dimension,   *)
(* and named variables.  The operations are the accessor's methods         *)
(* vector_to_scalar, get_q, get_river_flow and plot, each called on one    *)
(* dataset.  plot hands its keyword-argument dict to plot_orc.quiver; the  *)
(* dict objects that outlive a call (the one bound to plot's default at    *)
(* definition time, and one the caller keeps) are part of the state.       *)
(*                                                                         *)
(* Numbers.  A float is NaN or <<v>>, v an integer number of thousandths   *)
(* (fixed point, rounded to the nearest thousandth).  An angle is NaN or   *)
(* <<k>>, k an integer number of eighths of pi; np.arctan2 is modelled on  *)
(* the eight compass directions, which is all the coordinate and velocity  *)
(* sets below produce.                                                     *)
(***************************************************************************)
EXTENDS Integers, Sequences, FiniteSets, TLC

VARIABLES
    datasets,   \* the datasets alive in the session, in order of creation
    last,       \* the last call: method, dataset, arguments, outcome
    dicts,      \* the dict objects alive: plot's default kwargs, the caller's
    quiver      \* the last call plot_orc.quiver received

vars == <<datasets, last, dicts, quiver>>

(***************************************************************************)
(* Bounds of the model.                                                    *)
(***************************************************************************)
MaxPoints == 4      \* points of a cross-section whose geometry is drawn
MaxTime == 2        \* time steps of a dataset whose velocities are drawn
MaxDatasets == 2    \* datasets alive at once (get_q adds one)
MaxFlowPoints == 5  \* points of a quantile dataset whose q is drawn

(***************************************************************************)
(* Floats.                                                                 *)
(***************************************************************************)
NaN == <<>>

F(v) == <<v>>

Milli(n) == <<n * 1000>>

isfinite(a) == a # NaN

\* round-half-up division by a positive d
RoundDiv(n, d) == (2 * n + d) \div (2 * d)

FAdd(a, b) == IF a = NaN \/ b = NaN THEN NaN ELSE <<a[1] + b[1]>>

FSub(a, b) == IF a = NaN \/ b = NaN THEN NaN ELSE <<a[1] - b[1]>>

FMul(a, b) == IF a = NaN \/ b = NaN THEN NaN ELSE <<RoundDiv(a[1] * b[1], 1000)>>

FHalf(a) == IF a = NaN THEN NaN ELSE <<RoundDiv(a[1], 2)>>

\* Python's ==: False as soon as one side is nan
FEq(a, b) == a # NaN /\ b # NaN /\ a = b

RECURSIVE Bisect(_, _, _)
Bisect(n, lo, hi) ==
    IF hi - lo <= 1 THEN lo
    ELSE LET mid == (lo + hi) \div 2
         IN  IF mid * mid <= n THEN Bisect(n, mid, hi) ELSE Bisect(n, lo, mid)

\* ** 0.5 of a float >= 0
FSqrt(a) ==
    IF a = NaN THEN NaN
    ELSE LET n == a[1] * 1000
             r == Bisect(n, 0, a[1] + 1001)
         IN  IF (r + 1) * (r + 1) - n <= n - r * r THEN <<r + 1>> ELSE <<r>>

Sign(v) == IF v > 0 THEN 1 ELSE IF v < 0 THEN -1 ELSE 0

Abs(v) == IF v < 0 THEN -v ELSE v

(***************************************************************************)
(* Angles, in eighths of pi.                                               *)
(***************************************************************************)
HalfPi == 4

\* np.arctan2(a, b): the angle of the direction (a, b) measured from the
\* second argument's axis; arctan2(0, 0) = 0.
arctan2(a, b) ==
    IF a = NaN \/ b = NaN THEN NaN
    ELSE LET sa == Sign(a[1])
             sb == Sign(b[1])
         IN  CASE sa = 0 /\ sb >= 0 -> <<0>>
               [] sa = 0 /\ sb < 0 -> <<8>>
               [] sa # 0 /\ sb = 0 -> <<4 * sa>>
               [] sa # 0 /\ sb > 0 /\ Abs(a[1]) = Abs(b[1]) -> <<2 * sa>>
               [] sa # 0 /\ sb < 0 /\ Abs(a[1]) = Abs(b[1]) -> <<6 * sa>>

CosTable ==
    <<1000, 924, 707, 383, 0, -383, -707, -924,
      -1000, -924, -707, -383, 0, 383, 707, 924>>

\* np.cos of an angle
cos(a) == IF a = NaN THEN NaN ELSE <<CosTable[(a[1] % 16) + 1]>>

\* np.nanmean([l, r]): the mean of the entries that are not nan
nanmean(l, r) ==
    IF l = NaN /\ r = NaN THEN NaN
    ELSE IF l = NaN THEN r
    ELSE IF r = NaN THEN l
    ELSE <<(l[1] + r[1]) \div 2>>

(***************************************************************************)
(* Arrays: a 1-d array is a sequence of floats, a 2-d array a sequence     *)
(* (leading dimension) of 1-d arrays over the points.                      *)
(***************************************************************************)
RECURSIVE SeqsUpTo(_, _)
SeqsUpTo(S, n) ==
    IF n = 0 THEN {<<>>}
    ELSE LET shorter == SeqsUpTo(S, n - 1)
         IN  shorter \cup {Append(s, e) : s \in {t \in shorter : Len(t) = n - 1}, e \in S}

SeqsOfLen(S, n) == {s \in SeqsUpTo(S, n) : Len(s) = n}

\* a[idx]: the entries of a at the indices where idx is true
RECURSIVE Select(_, _)
Select(a, idx) ==
    IF a = <<>> THEN <<>>
    ELSE LET rest == Select(Tail(a), Tail(idx))
         IN  IF Head(idx) THEN <<Head(a)>> \o rest ELSE rest

\* a[idx] = b: b's entries written at the indices where idx is true
RECURSIVE Scatter(_, _, _)
Scatter(a, idx, b) ==
    IF a = <<>> THEN <<>>
    ELSE IF Head(idx) THEN <<Head(b)>> \o Scatter(Tail(a), Tail(idx), Tail(b))
    ELSE <<Head(a)>> \o Scatter(Tail(a), Tail(idx), b)

(***************************************************************************)
(* Datasets.  vars maps each variable (and coordinate) name the dataset    *)
(* holds to its array; dim names the leading dimension; h_a is the water   *)
(* level the dataset carries.                                              *)
(***************************************************************************)
\* obj[name] = value
SetVar(obj, name, value) ==
    [obj EXCEPT !.vars =
        [k \in DOMAIN obj.vars \cup {name} |-> IF k = name THEN value ELSE obj.vars[k]]]

Has(obj, name) == name \in DOMAIN obj.vars

\* len(obj.points)
NPoints(obj) == Len(obj.vars["x"])

Points(obj) == 1 .. NPoints(obj)

\* the indices of the leading dimension (time steps or quantiles)
Rows(obj) == 1 .. Len(obj.vars["v_x"])

(***************************************************************************)
(* vector_to_scalar, local mode: the neighbour scans of point n.           *)
(* Sequences are 1-based: point n of the code is point n + 1 here.         *)
(***************************************************************************)
\* the leftward scan from k down: the first index whose coordinates differ
\* from point n's, 0 when the scan passes the left bank (n + m < 0)
RECURSIVE left_scan(_, _, _, _)
left_scan(xs, ys, n, k) ==
    IF k < 1 THEN 0
    ELSE IF ~(FEq(xs[k], xs[n]) /\ FEq(ys[k], ys[n])) THEN k
    ELSE left_scan(xs, ys, n, k - 1)

\* the rightward scan from k up: the first index whose coordinates differ
\* from point n's, 0 when the scan stops at the bound n + m >= len(xs) - 1
RECURSIVE right_scan(_, _, _, _)
right_scan(xs, ys, n, k) ==
    IF k >= Len(xs) THEN 0
    ELSE IF ~(FEq(xs[k], xs[n]) /\ FEq(ys[k], ys[n])) THEN k
    ELSE right_scan(xs, ys, n, k + 1)

\* The for loop from point n on.  loc holds the function's local angle_left
\* as the earlier iterations left it: line 52 assigns only x_left and y_left
\* when the scan ends at the left bank, so angle_left keeps its last value,
\* and is not bound at all until some scan has found a neighbour.  Reading
\* it unbound at line 77 raises UnboundLocalError.
RECURSIVE angle_loop(_, _, _, _, _)
angle_loop(xs, ys, n, loc, angle) ==
    IF n > Len(xs)
    THEN [raised |-> "None", angle |-> angle, n |-> 0, left |-> 0, right |-> 0,
          angle_right |-> NaN]
    ELSE LET l == left_scan(xs, ys, n, n - 1)
             r == right_scan(xs, ys, n, n + 1)
             bound == loc.bound \/ l # 0
             angle_left ==
                 IF l # 0
                 THEN arctan2(FSub(xs[n], xs[l]), FSub(ys[n], ys[l]))
                 ELSE loc.angle_left
             angle_right ==
                 IF r # 0
                 THEN arctan2(FSub(xs[r], xs[n]), FSub(ys[r], ys[n]))
                 ELSE NaN
         IN  IF ~bound
             THEN [raised |-> "UnboundLocalError", angle |-> angle, n |-> n,
                   left |-> l, right |-> r, angle_right |-> angle_right]
             ELSE angle_loop(xs, ys, n + 1,
                             [bound |-> TRUE, angle_left |-> angle_left],
                             Append(angle, nanmean(angle_left, angle_right)))

\* the components passed through np.nan_to_num: an undefined one counts as 0
v_eff_cell_nan_to_num(vx, vy, flow_dir) ==
    LET ux == IF vx = NaN THEN F(0) ELSE vx
        uy == IF vy = NaN THEN F(0) ELSE vy
    IN  FMul(cos(FSub(arctan2(ux, uy), flow_dir)),
             FSqrt(FAdd(FMul(ux, ux), FMul(uy, uy))))

\* cos(v_angle - flow_dir) * v_scalar of one (row, point) cell
v_eff_cell(vx, vy, flow_dir) ==
    LET v_angle == arctan2(vx, vy)
        v_scalar == FSqrt(FAdd(FMul(vx, vx), FMul(vy, vy)))
        angle_diff == FSub(v_angle, flow_dir)
    IN  FMul(cos(angle_diff), v_scalar)

\* the dataset with "v_eff_nofill" and "v_dir" set from the per-point flow_dir
store_v_eff(obj, flow_dir) ==
    LET v_eff == [t \in Rows(obj) |->
                    [p \in Points(obj) |->
                        v_eff_cell(obj.vars["v_x"][t][p], obj.vars["v_y"][t][p],
                                   flow_dir[p])]]
    IN  SetVar(SetVar(obj, "v_eff_nofill", v_eff), "v_dir", flow_dir)

\* What the call does to the dataset: the exception it raises ("None" when it
\* returns), the dataset afterwards, and the loop's locals when it raised.
vector_to_scalar_run(obj, angle_method) ==
    LET idx == [p \in Points(obj) |-> isfinite(obj.vars["x"][p])]
        xs == Select(obj.vars["x"], idx)
        ys == Select(obj.vars["y"], idx)
        noframe == [n |-> 0, left |-> 0, right |-> 0, angle_right |-> NaN]
    IN  IF angle_method = 0
        THEN IF Len(xs) = 0
             THEN [raised |-> "IndexError", obj |-> obj, frame |-> noframe]
             ELSE LET angle_da == arctan2(FSub(xs[Len(xs)], xs[1]),
                                          FSub(ys[Len(ys)], ys[1]))
                      flow_dir == [p \in Points(obj) |-> FSub(angle_da, F(HalfPi))]
                  IN  [raised |-> "None", obj |-> store_v_eff(obj, flow_dir),
                       frame |-> noframe]
        ELSE LET run == angle_loop(xs, ys, 1, [bound |-> FALSE, angle_left |-> NaN], <<>>)
                 angle_da == Scatter([p \in Points(obj) |-> NaN], idx, run.angle)
                 flow_dir == [p \in Points(obj) |-> FSub(angle_da[p], F(HalfPi))]
             IN  IF run.raised # "None"
                 THEN [raised |-> run.raised, obj |-> obj,
                       frame |-> [n |-> run.n, left |-> run.left, right |-> run.right,
                                  angle_right |-> run.angle_right]]
                 ELSE [raised |-> "None", obj |-> store_v_eff(obj, flow_dir),
                       frame |-> noframe]

NoFrame == [n |-> 0, left |-> 0, right |-> 0, angle_right |-> NaN]

NoMessage == <<>>

vector_to_scalar(d, angle_method) ==
    LET run == vector_to_scalar_run(datasets[d], angle_method)
    IN  /\ datasets' = [datasets EXCEPT ![d] = run.obj]
        /\ last' = [op |-> "vector_to_scalar", d |-> d, arg |-> angle_method,
                    raised |-> run.raised, message |-> NoMessage,
                    frame |-> run.frame, ret |-> 0]
        /\ UNCHANGED <<dicts, quiver>>

(***************************************************************************)
(* get_river_flow                                                          *)
(***************************************************************************)
\* the ValueError's message, cut at the names it quotes
MissingQMessage ==
    <<"Dataset must contain variable ", "q",
      ", which is the depth-integrated velocity [m2 s-1], perpendicular to cross-section. Create this with ds.transect.",
      "get_q">>

\* DataArray.fillna(value), one row
fillna(a, value) == [p \in DOMAIN a |-> IF a[p] = NaN THEN value ELSE a[p]]

\* the trapezoidal rule xarray's integrate applies along the coordinate x:
\* sum(diff(x) * (y[1:] + y[:-1]) / 2)
RECURSIVE trapz(_, _)
trapz(y, x) ==
    IF Len(x) < 2 THEN F(0)
    ELSE FAdd(FHalf(FMul(FSub(x[2], x[1]), FAdd(y[2], y[1]))),
              trapz(Tail(y), Tail(x)))

\* fillna(0.0) left out: an undefined q makes the integral undefined
integrate_q_nofill(obj) ==
    [r \in DOMAIN obj.vars["q"] |-> trapz(obj.vars["q"][r], obj.vars["scoords"])]

\* self._obj["q"].fillna(0.0).integrate(coord="scoords"): one Q per row
integrate_q(obj) ==
    [r \in DOMAIN obj.vars["q"] |->
        trapz(fillna(obj.vars["q"][r], F(0)), obj.vars["scoords"])]

\* the guard of line 137 left out: self._obj["q"] raises KeyError
get_river_flow_run_unguarded(obj) ==
    IF ~Has(obj, "q")
    THEN [raised |-> "KeyError", message |-> <<"q">>, obj |-> obj]
    ELSE [raised |-> "None", message |-> NoMessage,
          obj |-> SetVar(obj, "river_flow", integrate_q(obj))]

get_river_flow_run(obj) ==
    IF ~Has(obj, "q")
    THEN [raised |-> "ValueError", message |-> MissingQMessage, obj |-> obj]
    ELSE [raised |-> "None", message |-> NoMessage,
          obj |-> SetVar(obj, "river_flow", integrate_q(obj))]

get_river_flow(d) ==
    LET run == get_river_flow_run(datasets[d])
    IN  /\ datasets' = [datasets EXCEPT ![d] = run.obj]
        /\ last' = [op |-> "get_river_flow", d |-> d, arg |-> 0,
                    raised |-> run.raised, message |-> run.message,
                    frame |-> NoFrame, ret |-> 0]
        /\ UNCHANGED <<dicts, quiver>>

(***************************************************************************)
(* get_q                                                                   *)
(***************************************************************************)
\* camera_config.gcps (src/tests/conftest.py), in thousandths
z_0 == 1182200

h_ref == 0

\* the fewest valid points of a group the profile fit needs
MinValid == 2

\* the variables that carry the leading dimension
RowVars == {"v_x", "v_y", "v_eff_nofill", "v_eff", "q_nofill", "q"}

RECURSIVE Insert(_, _)
Insert(v, sorted) ==
    IF sorted = <<>> THEN <<v>>
    ELSE IF v <= Head(sorted) THEN <<v>> \o sorted
    ELSE <<Head(sorted)>> \o Insert(v, Tail(sorted))

\* the finite values of a column, sorted
RECURSIVE SortFinite(_)
SortFinite(a) ==
    IF a = <<>> THEN <<>>
    ELSE IF Head(a) = NaN THEN SortFinite(Tail(a))
    ELSE Insert(Head(a)[1], SortFinite(Tail(a)))

\* np.nanquantile(a, q), linear interpolation; q in thousandths
nanquantile(a, q) ==
    LET v == SortFinite(a)
        k == Len(v)
        pos == q * (k - 1)
        lo == pos \div 1000
        frac == pos % 1000
    IN  IF k = 0 THEN NaN
        ELSE IF frac = 0 THEN <<v[lo + 1]>>
        ELSE <<v[lo + 1] + RoundDiv(frac * (v[lo + 2] - v[lo + 1]), 1000)>>

\* Dataset.quantile(quantiles, dim="time", keep_attrs=True): a new dataset in
\* which every variable over time is reduced to one row per quantile, and the
\* other variables and the attributes are kept
quantile(obj, quantiles) ==
    [dim |-> "quantile",
     h_a |-> obj.h_a,
     vars |-> [k \in DOMAIN obj.vars |->
                 IF k \in RowVars
                 THEN [i \in DOMAIN quantiles |->
                         [p \in Points(obj) |->
                             nanquantile([t \in DOMAIN obj.vars[k] |-> obj.vars[k][t][p]],
                                         quantiles[i])]]
                 ELSE obj.vars[k]]]

\* helpers.velocity_fill(..., groupby="quantile"): within each quantile with
\* at least MinValid defined points, an undefined point takes the fitted
\* profile's value, fit (NaN when no fit can be made); defined points pass
velocity_fill(x, y, z, v_eff_nofill, z0, href, h_a, fit) ==
    [r \in DOMAIN v_eff_nofill |->
        LET row == v_eff_nofill[r]
            valid == {p \in DOMAIN row : row[p] # NaN}
        IN  [p \in DOMAIN row |->
                IF row[p] = NaN /\ Cardinality(valid) >= MinValid THEN fit ELSE row[p]]]

\* helpers.depth_integrate: q = v_corr * v * depth, undefined where the
\* depth h_a + h_ref - (z - z_0) is not positive
depth_integrate(z, v, z0, href, h_a, v_corr) ==
    [r \in DOMAIN v |->
        [p \in DOMAIN v[r] |->
            LET depth == FSub(FAdd(h_a, href), FSub(z[p], z0))
            IN  IF depth = NaN \/ depth[1] <= 0 THEN NaN
                ELSE FMul(FMul(v_corr, v[r][p]), depth)]]

\* line 171 storing its result under "q": "q_nofill" is never set
get_q_run_misnamed(obj, v_corr, quantiles, fit) ==
    IF obj.dim # "time"
    THEN [raised |-> "ValueError", ds |-> obj]
    ELSE LET ds == quantile(obj, quantiles)
             z == ds.vars["zcoords"]
         IN  IF ~Has(ds, "v_eff_nofill")
             THEN [raised |-> "KeyError", ds |-> obj]
             ELSE LET ds1 == SetVar(ds, "v_eff",
                                velocity_fill(ds.vars["xcoords"], ds.vars["ycoords"], z,
                                              ds.vars["v_eff_nofill"],
                                              F(z_0), F(h_ref), ds.h_a, fit))
                      ds3 == SetVar(ds1, "q",
                                depth_integrate(z, ds1.vars["v_eff"],
                                                F(z_0), F(h_ref), ds.h_a, v_corr))
                  IN  [raised |-> "None", ds |-> ds3]

\* the exception raised ("None" when the call returns) and the dataset returned
get_q_run(obj, v_corr, quantiles, fit) ==
    IF obj.dim # "time"
    THEN [raised |-> "ValueError", ds |-> obj]
    ELSE LET ds == quantile(obj, quantiles)
             x == ds.vars["xcoords"]
             y == ds.vars["ycoords"]
             z == ds.vars["zcoords"]
             h_a == ds.h_a
         IN  IF ~Has(ds, "v_eff_nofill")
             THEN [raised |-> "KeyError", ds |-> obj]
             ELSE LET ds1 == SetVar(ds, "v_eff",
                                velocity_fill(x, y, z, ds.vars["v_eff_nofill"],
                                              F(z_0), F(h_ref), h_a, fit))
                      ds2 == SetVar(ds1, "q_nofill",
                                depth_integrate(z, ds1.vars["v_eff_nofill"],
                                                F(z_0), F(h_ref), h_a, v_corr))
                      ds3 == SetVar(ds2, "q",
                                depth_integrate(z, ds2.vars["v_eff"],
                                                F(z_0), F(h_ref), h_a, v_corr))
                  IN  [raised |-> "None", ds |-> ds3]

\* v_eff, q_nofill and q assigned to self._obj as well as to ds
get_q_inplace(d, v_corr, quantiles, fit) ==
    LET run == get_q_run(datasets[d], v_corr, quantiles, fit)
        obj == SetVar(SetVar(SetVar(datasets[d], "v_eff", run.ds.vars["v_eff"]),
                             "q_nofill", run.ds.vars["q_nofill"]),
                      "q", run.ds.vars["q"])
    IN  /\ run.raised = "None" => Len(datasets) < MaxDatasets
        /\ datasets' = IF run.raised = "None"
                       THEN Append([datasets EXCEPT ![d] = obj], run.ds)
                       ELSE datasets
        /\ last' = [op |-> "get_q", d |-> d, arg |-> <<v_corr, quantiles, fit>>,
                    raised |-> run.raised, message |-> NoMessage, frame |-> NoFrame,
                    ret |-> IF run.raised = "None" THEN Len(datasets) + 1 ELSE 0]
        /\ UNCHANGED <<dicts, quiver>>

get_q(d, v_corr, quantiles, fit) ==
    LET run == get_q_run(datasets[d], v_corr, quantiles, fit)
    IN  /\ run.raised = "None" => Len(datasets) < MaxDatasets
        /\ datasets' = IF run.raised = "None" THEN Append(datasets, run.ds) ELSE datasets
        /\ last' = [op |-> "get_q", d |-> d, arg |-> <<v_corr, quantiles, fit>>,
                    raised |-> run.raised, message |-> NoMessage, frame |-> NoFrame,
                    ret |-> IF run.raised = "None" THEN Len(datasets) + 1 ELSE 0]
        /\ UNCHANGED <<dicts, quiver>>

(***************************************************************************)
(* plot.  A dict is the set of its <<key, value>> items.                   *)
(***************************************************************************)
\* kwargs[key] = value
SetItem(kwargs, key, value) == {kv \in kwargs : kv[1] # key} \cup {<<key, value>>}

Keys(kwargs) == {kv[1] : kv \in kwargs}

\* ccrs.PlateCarree()
PlateCarree == "ccrs.PlateCarree()"

NoQuiver == [x |-> <<>>, y |-> <<>>, s |-> <<>>, kwargs |-> {}]

\* What the call does with the dict object bound to its parameter kwargs:
\* the exception raised ("None" when the call returns), the dict object
\* afterwards, and the call plot_orc.quiver received (the positions, the
\* colouring scalar s and the keyword arguments; the arrows' components go
\* through helpers.rotate_u_v and are left out).  cartopy tells whether
\* "import cartopy.crs" succeeds.  In a mode other than "local" and
\* "geographical" x is never bound, and line 214 raises on reading it.
plot_run(obj, mode, kwargs, cartopy) ==
    IF ~Has(obj, "v_eff") \/ ~Has(obj, "v_dir")
    THEN [raised |-> "KeyError", kwargs |-> kwargs, quiver |-> NoQuiver]
    ELSE IF mode = "local"
    THEN [raised |-> "None", kwargs |-> kwargs,
          quiver |-> [x |-> obj.vars["x"], y |-> obj.vars["y"],
                      s |-> obj.vars["v_eff"], kwargs |-> kwargs]]
    ELSE IF mode = "geographical"
    THEN IF ~cartopy
         THEN [raised |-> "ModuleNotFoundError", kwargs |-> kwargs, quiver |-> NoQuiver]
         ELSE LET kw == SetItem(kwargs, "transform", PlateCarree)
              IN  IF ~Has(obj, "lon") \/ ~Has(obj, "lat")
                  THEN [raised |-> "KeyError", kwargs |-> kw, quiver |-> NoQuiver]
                  ELSE [raised |-> "None", kwargs |-> kw,
                        quiver |-> [x |-> obj.vars["lon"], y |-> obj.vars["lat"],
                                    s |-> obj.vars["v_eff"], kwargs |-> kw]]
    ELSE [raised |-> "UnboundLocalError", kwargs |-> kwargs, quiver |-> NoQuiver]

\* the dict object the parameter kwargs is bound to: the default's when the
\* argument is omitted, the caller's own, or a dict made for this call
Bound(kwargs) ==
    IF kwargs.kind = "omitted" THEN dicts.default
    ELSE IF kwargs.kind = "caller" THEN dicts.caller
    ELSE kwargs.literal

plot(d, mode, kwargs, cartopy) ==
    LET run == plot_run(datasets[d], mode, Bound(kwargs), cartopy)
    IN  /\ dicts' = IF kwargs.kind = "omitted" THEN [dicts EXCEPT !.default = run.kwargs]
                    ELSE IF kwargs.kind = "caller" THEN [dicts EXCEPT !.caller = run.kwargs]
                    ELSE dicts
        /\ quiver' = IF run.raised = "None" THEN run.quiver ELSE quiver
        /\ last' = [op |-> "plot", d |-> d, arg |-> [mode |-> mode, kwargs |-> kwargs],
                    raised |-> run.raised, message |-> NoMessage, frame |-> NoFrame,
                    ret |-> 0]
        /\ UNCHANGED datasets

(***************************************************************************)
(* The inputs drawn.                                                       *)
(***************************************************************************)
\* a point of the cross-section: off the area of interest (not sampled), or
\* on a corner of the unit square
PointSet == {<<NaN, NaN>>} \cup {<<Milli(a), Milli(b)>> : a, b \in {0, 1}}

\* a velocity sample (v_x, v_y) on the section; either component may be
\* undefined
CellSet ==
    {<<NaN, Milli(1)>>, <<Milli(1), NaN>>,
     <<Milli(0), Milli(1)>>, <<Milli(1), Milli(1)>>}

\* bed levels: two metres under the water level, and one metre above it
Wet == F(z_0 - 2000)

Dry == F(z_0 + 1000)

\* get_q's arguments v_corr (default 0.9), quantiles (default the five), and
\* what the profile fit yields for an undefined point
GetQArgs ==
    {<<F(900), <<50, 250, 500, 750, 950>>, NaN>>,
     <<F(1000), <<500>>, F(1000)>>}

\* the transect dataset get_transect hands over: the points' coordinates and
\* the velocity series, no derived variable
RawDataset(pts, cells, z) ==
    [dim |-> "time",
     h_a |-> F(0),
     vars |-> [x |-> [p \in DOMAIN pts |-> pts[p][1]],
               y |-> [p \in DOMAIN pts |-> pts[p][2]],
               xcoords |-> [p \in DOMAIN pts |-> pts[p][1]],
               ycoords |-> [p \in DOMAIN pts |-> pts[p][2]],
               zcoords |-> z,
               scoords |-> [p \in DOMAIN pts |-> Milli(p - 1)],
               v_x |-> [t \in DOMAIN cells |-> [p \in DOMAIN pts |-> cells[t][p][1]]],
               v_y |-> [t \in DOMAIN cells |-> [p \in DOMAIN pts |-> cells[t][p][2]]]]]

\* any geometry of up to MaxPoints points, one time step: velocity (0, 1) at
\* the points on the area of interest, none at the others
GeometryInputs ==
    {RawDataset(pts,
                <<[p \in DOMAIN pts |->
                     IF pts[p] = <<NaN, NaN>> THEN <<NaN, NaN>>
                     ELSE <<Milli(0), Milli(1)>>]>>,
                [p \in DOMAIN pts |-> Wet]) :
        pts \in SeqsUpTo(PointSet, MaxPoints)}

\* a straight two-point section, any velocities over 1 .. MaxTime time steps
VelocityInputs ==
    {RawDataset(<<<<Milli(0), Milli(0)>>, <<Milli(1), Milli(0)>>>>, cells, <<Wet, Dry>>) :
        cells \in UNION {SeqsOfLen(SeqsOfLen(CellSet, 2), t) : t \in 1 .. MaxTime}}

\* the sessions' raw datasets: a bent section seen over two time steps with
\* one velocity missing; a section whose first point is off the area of
\* interest; a section with no point on it.  Each point's velocity is the
\* same at every time step it is defined at, so that its quantiles are that
\* velocity and stay on the compass directions arctan2 is modelled on.
SessionInputs ==
    {RawDataset(<<<<Milli(0), Milli(0)>>, <<Milli(1), Milli(0)>>, <<Milli(1), Milli(1)>>>>,
                <<<<<<Milli(0), Milli(1)>>, <<Milli(1), Milli(1)>>, <<Milli(0), Milli(1)>>>>,
                  <<<<Milli(0), Milli(1)>>, <<NaN, NaN>>, <<Milli(0), Milli(1)>>>>>>,
                <<Wet, Wet, Dry>>),
     RawDataset(<<<<NaN, NaN>>, <<Milli(0), Milli(0)>>, <<Milli(1), Milli(0)>>>>,
                <<<<<<NaN, NaN>>, <<Milli(0), Milli(1)>>, <<Milli(0), Milli(1)>>>>>>,
                <<Wet, Wet, Wet>>),
     RawDataset(<<<<NaN, NaN>>, <<NaN, NaN>>>>,
                <<<<<<NaN, NaN>>, <<NaN, NaN>>>>>>,
                <<Wet, Wet>>)}

\* a dataset as get_river_flow integrates it: q over the quantiles and the
\* points, and the points' distances s along the section
FlowDataset(s, q) ==
    [dim |-> "quantile",
     h_a |-> F(0),
     vars |-> [x |-> s,
               y |-> [p \in DOMAIN s |-> Milli(0)],
               xcoords |-> s,
               ycoords |-> [p \in DOMAIN s |-> Milli(0)],
               zcoords |-> [p \in DOMAIN s |-> Wet],
               scoords |-> s,
               v_x |-> [r \in DOMAIN q |-> [p \in DOMAIN s |-> Milli(0)]],
               v_y |-> [r \in DOMAIN q |-> [p \in DOMAIN s |-> Milli(1)]],
               q |-> q]]

\* the increasing sequences of n of the distances 0 .. MaxFlowPoints - 1
RECURSIVE Increasing(_, _)
Increasing(n, from) ==
    IF n = 0 THEN {<<>>}
    ELSE UNION {{<<Milli(a)>> \o rest : rest \in Increasing(n - 1, a + 1)} :
                   a \in from .. MaxFlowPoints - 1}

QSet == {NaN, Milli(0), Milli(2)}

\* one quantile over up to MaxFlowPoints points, and two quantiles over two
FlowInputs ==
    UNION {{FlowDataset(s, <<q>>) : s \in Increasing(n, 0), q \in SeqsOfLen(QSet, n)} :
              n \in 0 .. MaxFlowPoints}
    \cup
    {FlowDataset(s, <<q1, q2>>) :
        s \in Increasing(2, 0), q1 \in SeqsOfLen(QSet, 2), q2 \in SeqsOfLen(QSet, 2)}

\* the dict objects before any call: the default of plot's kwargs is the {}
\* of line 183, evaluated once, and the caller holds an empty dict
NoDicts == [default |-> {}, caller |-> {}]

\* the dicts a caller passes: none of them has "transform"
CallerDicts == {{}, {<<"color", "r">>}, {<<"color", "r">>, <<"scale", "10">>}}

\* plot's argument kwargs: omitted, the caller's own dict, or a dict literal
KwargsArgs ==
    {[kind |-> "omitted", literal |-> {}], [kind |-> "caller", literal |-> {}]}
    \cup {[kind |-> "literal", literal |-> k] : k \in CallerDicts}

Modes == {"local", "geographical", "camera"}

\* the datasets vector_to_scalar and get_q make of the sessions' raw ones
Profiles ==
    {get_q_run(vector_to_scalar_run(obj, 0).obj, a[1], a[2], a[3]).ds :
        obj \in {o \in SessionInputs : vector_to_scalar_run(o, 0).raised = "None"},
        a \in GetQArgs}

\* a dataset that carries geographical coordinates "lon" and "lat"
Georeferenced(obj) ==
    SetVar(SetVar(obj, "lon", obj.vars["xcoords"]), "lat", obj.vars["ycoords"])

\* the datasets plot is called on: raw ones (no "v_eff"), and the profiles
\* with and without geographical coordinates
PlotInputs == SessionInputs \cup Profiles \cup {Georeferenced(obj) : obj \in Profiles}

NoCall ==
    [op |-> "none", d |-> 0, arg |-> 0, raised |-> "None", message |-> NoMessage,
     frame |-> NoFrame, ret |-> 0]

(***************************************************************************)
(* Sessions: any sequence of calls on the raw dataset and on the datasets  *)
(* get_q has returned.                                                     *)
(***************************************************************************)
Init ==
    /\ datasets \in {<<obj>> : obj \in SessionInputs}
    /\ last = NoCall
    /\ dicts = NoDicts
    /\ quiver = NoQuiver

Next ==
    \/ \E d \in DOMAIN datasets, angle_method \in {0, 1} :
          vector_to_scalar(d, angle_method)
    \/ \E d \in DOMAIN datasets, a \in GetQArgs : get_q(d, a[1], a[2], a[3])
    \/ \E d \in DOMAIN datasets : get_river_flow(d)

Spec == Init /\ [][Next]_vars

(***************************************************************************)
(* vector_to_scalar over the geometries and the velocity fields.           *)
(***************************************************************************)
InitVts ==
    /\ datasets \in {<<obj>> : obj \in GeometryInputs \cup VelocityInputs}
    /\ last = NoCall
    /\ dicts = NoDicts
    /\ quiver = NoQuiver

NextVts ==
    \E d \in DOMAIN datasets, angle_method \in {0, 1} :
        vector_to_scalar(d, angle_method)

SpecVts == InitVts /\ [][NextVts]_vars

(***************************************************************************)
(* get_river_flow over the q profiles.                                     *)
(***************************************************************************)
InitFlow ==
    /\ datasets \in {<<obj>> : obj \in FlowInputs}
    /\ last = NoCall
    /\ dicts = NoDicts
    /\ quiver = NoQuiver

NextFlow == \E d \in DOMAIN datasets : get_river_flow(d)

SpecFlow == InitFlow /\ [][NextFlow]_vars

(***************************************************************************)
(* plot: any sequence of plot calls on one dataset.                        *)
(***************************************************************************)
InitPlot ==
    /\ datasets \in {<<obj>> : obj \in PlotInputs}
    /\ last = NoCall
    /\ dicts \in {[default |-> {}, caller |-> k] : k \in CallerDicts}
    /\ quiver = NoQuiver

NextPlot ==
    \E d \in DOMAIN datasets, mode \in Modes, kwargs \in KwargsArgs, cartopy \in BOOLEAN :
        plot(d, mode, kwargs, cartopy)

SpecPlot == InitPlot /\ [][NextPlot]_vars

(***************************************************************************)
(* Properties.                                                             *)
(***************************************************************************)
Mentions(message, name) == \E i \in DOMAIN message : message[i] = name

\* C1: get_river_flow called on a dataset without "q" raises a ValueError
\* whose message names the variable "q" and the call get_q, and leaves every
\* dataset as it was: no "river_flow" is added.
C1_MissingQ ==
    [][\A d \in DOMAIN datasets :
          (get_river_flow(d) /\ ~Has(datasets[d], "q")) =>
              /\ last'.raised = "ValueError"
              /\ Mentions(last'.message, "q")
              /\ Mentions(last'.message, "get_q")
              /\ datasets' = datasets
              /\ ~Has(datasets'[d], "river_flow")]_vars

C1_Witness ==
    /\ last.op = "get_river_flow"
    /\ last.raised = "ValueError"
    /\ ~Has(datasets[last.d], "q")
    /\ ~Has(datasets[last.d], "river_flow")

\* the twice-thousandfold trapezoidal sum of q over s from point i on, q's
\* undefined values counted as 0
RECURSIVE TrapezoidSum(_, _, _)
TrapezoidSum(s, q, i) ==
    IF i >= Len(s) THEN 0
    ELSE LET q0 == IF q[i] = NaN THEN 0 ELSE q[i][1]
             q1 == IF q[i + 1] = NaN THEN 0 ELSE q[i + 1][1]
         IN  (s[i + 1][1] - s[i][1]) * (q0 + q1) + TrapezoidSum(s, q, i + 1)

\* C2: for every quantile, "river_flow" is the trapezoidal integral of q over
\* s, the sum of (s[i+1] - s[i]) * (q[i] + q[i+1]) / 2 with every undefined
\* q[i] taken as 0; q uniformly 2 over s = [0, 1, 2, 3, 4] gives 8, and q
\* uniformly 0 gives 0.
C2_Trapezoid ==
    \A d \in DOMAIN datasets :
        Has(datasets[d], "river_flow") =>
            LET s == datasets[d].vars["scoords"]
                q == datasets[d].vars["q"]
                Q == datasets[d].vars["river_flow"]
            IN  /\ DOMAIN Q = DOMAIN q
                /\ \A r \in DOMAIN q :
                      /\ Q[r] # NaN
                      /\ 2000 * Q[r][1] = TrapezoidSum(s, q[r], 1)
                      /\ (s = <<Milli(0), Milli(1), Milli(2), Milli(3), Milli(4)>>
                             /\ \A p \in DOMAIN q[r] : q[r][p] = Milli(2))
                         => Q[r] = Milli(8)
                      /\ (\A p \in DOMAIN q[r] : q[r][p] = Milli(0)) => Q[r] = Milli(0)

C2_Witness ==
    /\ last.op = "get_river_flow"
    /\ last.raised = "None"
    /\ LET obj == datasets[last.d]
       IN  /\ Len(obj.vars["scoords"]) >= 3
           /\ \E p \in Points(obj) : obj.vars["q"][1][p] = NaN
           /\ obj.vars["river_flow"][1] # NaN
           /\ obj.vars["river_flow"][1] # Milli(0)

\* the valid points' coordinates, as lines 28-30 select them
ValidX(obj) == Select(obj.vars["x"], [p \in Points(obj) |-> isfinite(obj.vars["x"][p])])

ValidY(obj) == Select(obj.vars["y"], [p \in Points(obj) |-> isfinite(obj.vars["x"][p])])

\* a variable's entries at the valid points
AtValid(obj, name) ==
    Select(obj.vars[name], [p \in Points(obj) |-> isfinite(obj.vars["x"][p])])

SamePlace(xs, ys, i, j) == xs[i] = xs[j] /\ ys[i] = ys[j]

\* the nearest index after n whose coordinates differ from point n's, 0 if none
NearestRight(xs, ys, n) ==
    LET K == {k \in n + 1 .. Len(xs) : ~SamePlace(xs, ys, k, n)}
    IN  IF K = {} THEN 0 ELSE CHOOSE k \in K : \A j \in K : k <= j

LocalCall == last.op = "vector_to_scalar" /\ last.arg # 0

\* C3: in local mode, when there is a valid point, the call completes, and
\* every valid point whose leftward scan passes the left bank gets the
\* angle of its right neighbour alone (undefined if that is undefined too).
C3_LeftBank ==
    LET obj == datasets[last.d]
        xs == ValidX(obj)
        ys == ValidY(obj)
    IN  (LocalCall /\ Len(xs) > 0) =>
            /\ last.raised = "None"
            /\ \A n \in 1 .. Len(xs) :
                  left_scan(xs, ys, n, n - 1) = 0 =>
                      LET r == right_scan(xs, ys, n, n + 1)
                          angle_right ==
                              IF r = 0 THEN NaN
                              ELSE arctan2(FSub(xs[r], xs[n]), FSub(ys[r], ys[n]))
                      IN  AtValid(obj, "v_dir")[n] = FSub(angle_right, F(HalfPi))

\* C4: in local mode the rightward scan of point n selects the nearest index
\* after n whose coordinates differ from point n's, up to and including the
\* last valid point, and finds none only when there is none.
C4_RightScan ==
    LET obj == datasets[last.d]
        xs == ValidX(obj)
        ys == ValidY(obj)
    IN  LocalCall =>
            \A n \in 1 .. Len(xs) :
                right_scan(xs, ys, n, n + 1) = NearestRight(xs, ys, n)

\* C5: on a section of exactly two distinct finite points, local mode gives
\* both points the flow direction global mode gives,
\* atan2(x_last - x_first, y_last - y_first) - pi/2.
C5_TwoPoints ==
    LET obj == datasets[last.d]
        x == obj.vars["x"]
        y == obj.vars["y"]
    IN  (/\ LocalCall
         /\ NPoints(obj) = 2
         /\ \A p \in Points(obj) : isfinite(x[p]) /\ isfinite(y[p])
         /\ ~SamePlace(x, y, 1, 2)) =>
            /\ last.raised = "None"
            /\ \A p \in Points(obj) :
                  obj.vars["v_dir"][p] =
                      FSub(arctan2(FSub(x[2], x[1]), FSub(y[2], y[1])), F(HalfPi))

\* C6: after vector_to_scalar, v_eff_nofill is undefined at every cell at
\* which v_x or v_y is undefined, and a cell's value depends on that cell's
\* velocity and its point's flow direction alone: cells that agree on these
\* have the same, defined, value whatever is undefined elsewhere.
C6_Undefined ==
    \A d \in DOMAIN datasets :
        Has(datasets[d], "v_eff_nofill") =>
            LET obj == datasets[d]
                v_x == obj.vars["v_x"]
                v_y == obj.vars["v_y"]
                v_eff == obj.vars["v_eff_nofill"]
                v_dir == obj.vars["v_dir"]
            IN  \A t \in Rows(obj), p \in Points(obj) :
                    /\ (v_x[t][p] = NaN \/ v_y[t][p] = NaN) => v_eff[t][p] = NaN
                    /\ (v_x[t][p] # NaN /\ v_y[t][p] # NaN /\ v_dir[p] # NaN) =>
                          /\ v_eff[t][p] # NaN
                          /\ \A t2 \in Rows(obj), p2 \in Points(obj) :
                                (/\ v_x[t2][p2] = v_x[t][p]
                                 /\ v_y[t2][p2] = v_y[t][p]
                                 /\ v_dir[p2] = v_dir[p]) => v_eff[t2][p2] = v_eff[t][p]

C6_Witness ==
    /\ last.op = "vector_to_scalar"
    /\ last.raised = "None"
    /\ LET obj == datasets[last.d]
       IN  \E t \in Rows(obj), p, p2 \in Points(obj) :
              /\ obj.vars["v_x"][t][p] = NaN
              /\ obj.vars["v_y"][t][p] # NaN
              /\ obj.vars["v_dir"][p] # NaN
              /\ obj.vars["v_eff_nofill"][t][p] = NaN
              /\ obj.vars["v_eff_nofill"][t][p2] # NaN
              /\ obj.vars["v_eff_nofill"][t][p2] # F(0)

\* C7: with at least one valid point and all valid points in one place,
\* vector_to_scalar raises nothing in either mode and leaves the flow
\* direction of every point undefined.
C7_OnePlace ==
    LET obj == datasets[last.d]
        xs == ValidX(obj)
        ys == ValidY(obj)
    IN  (/\ last.op = "vector_to_scalar"
         /\ Len(xs) >= 1
         /\ \A n \in 1 .. Len(xs) : SamePlace(xs, ys, n, 1)) =>
            /\ last.raised = "None"
            /\ \A p \in Points(obj) : obj.vars["v_dir"][p] = NaN

\* C8: with no valid point, vector_to_scalar raises an error in both modes.
C8_NoPoint ==
    (last.op = "vector_to_scalar" /\ Len(ValidX(datasets[last.d])) = 0) =>
        last.raised # "None"

\* C9: get_q leaves the dataset it is called on, and every other, as it was
\* and returns a new one: v_eff, q_nofill and q are in the returned dataset
\* only, and get_river_flow on the source still fails for the missing q.
C9_NewDataset ==
    [][\A d \in DOMAIN datasets, a \in GetQArgs :
          get_q(d, a[1], a[2], a[3]) =>
              /\ \A e \in DOMAIN datasets : datasets'[e] = datasets[e]
              /\ last'.raised = "None" =>
                    /\ DOMAIN datasets' = DOMAIN datasets \cup {last'.ret}
                    /\ last'.ret \notin DOMAIN datasets
                    /\ {"v_eff", "q_nofill", "q"} \subseteq DOMAIN datasets'[last'.ret].vars
                    /\ {"v_eff", "q_nofill", "q"} \cap DOMAIN datasets'[d].vars = {}
                    /\ datasets'[d].dim = "time"
                    /\ get_river_flow_run(datasets'[d]).raised = "ValueError"]_vars

C9_Witness ==
    /\ last.op = "get_q"
    /\ last.raised = "None"
    /\ Has(datasets[last.ret], "q")
    /\ ~Has(datasets[last.d], "q")
    /\ datasets[last.d].dim = "time"

\* C10: in every dataset of a session that starts from the raw inputs,
\* "river_flow" is present only with "q", and "q" only with "v_eff",
\* "q_nofill" and "v_eff_nofill".
C10_Order ==
    \A d \in DOMAIN datasets :
        /\ Has(datasets[d], "river_flow") => Has(datasets[d], "q")
        /\ Has(datasets[d], "q") =>
              {"v_eff", "q_nofill", "v_eff_nofill"} \subseteq DOMAIN datasets[d].vars

C10_Witness ==
    \E d \in DOMAIN datasets :
        /\ Has(datasets[d], "river_flow")
        /\ Has(datasets[d], "q")
        /\ last.raised # "None"

\* C11: a plot call in mode "local" made without a kwargs argument passes
\* no keyword argument on to quiver, and so no "transform" entry an earlier
\* call in mode "geographical" added, whatever calls were made before.
C11_DefaultKwargs ==
    (/\ last.op = "plot"
     /\ last.arg.mode = "local"
     /\ last.arg.kwargs.kind = "omitted"
     /\ last.raised = "None") =>
        /\ quiver.kwargs = {}
        /\ "transform" \notin Keys(quiver.kwargs)

====
